---- MODULE Spec2Model ----
(***************************************************************************)
(* A model of Scanner.py: the forex screener's volatility ranking,         *)
(* smart-money detection, pair selection and notification logic.           *)
(*                                                                         *)
(* Numbers.  The program computes with IEEE doubles (numpy.float64).  A    *)
(* value is modelled as an exact fraction <<n, d>> in lowest terms with    *)
(* d > 0; the three non-finite doubles are the fractions with d = 0:       *)
(* <<1, 0>> is +inf, <<-1, 0>> is -inf and <<0, 0>> is NaN.  Rounding and  *)
(* the sign of zero are not modelled.                                      *)
(*                                                                         *)
(* Units.  Prices and ATR values are counted in points of 0.0001, so the   *)
(* ATR threshold 0.0006 of the program is 6 and reversal_threshold =       *)
(* 0.0003 is 3; price changes are percentages, as in the program.          *)
(***************************************************************************)
EXTENDS Integers, Sequences, FiniteSets, TLC

VARIABLES
    phase,               \* position of the running function / of monitor_forex
    cursor,              \* index into currency_pairs of the rank_currencies loop
    feed,                \* what fetch_data returns for each listed symbol
    pair_volatility,     \* the metrics map, in insertion order
    currency_volatility, \* per-currency totals, in insertion order
    ranked_currencies,   \* result of rank_currencies
    thresholds,          \* the thresholds dict
    top_three_pairs,     \* result of select_top_three_pairs
    notifications,       \* result of check_notifications
    df,                  \* the bar series handed to detect_smart_money
    result,              \* result of detect_smart_money on df
    mirror_result        \* result of detect_smart_money on the mirrored df

vars == <<phase, cursor, feed, pair_volatility, currency_volatility,
          ranked_currencies, thresholds, top_three_pairs, notifications,
          df, result, mirror_result>>

---------------------------------------------------------------------------
(* Floating-point arithmetic as exact fractions with inf and NaN.          *)

Abs(x) == IF x < 0 THEN -x ELSE x

Sign(x) == IF x > 0 THEN 1 ELSE IF x < 0 THEN -1 ELSE 0

RECURSIVE Gcd(_, _)
Gcd(a, b) == IF b = 0 THEN a ELSE Gcd(b, a % b)

Float(n, d) ==
    IF d = 0 THEN <<Sign(n), 0>>
    ELSE LET g == Gcd(Abs(n), Abs(d))
             s == Sign(d)
         IN  <<(s * n) \div g, (s * d) \div g>>

NaN == <<0, 0>>

IsNaN(a) == a = NaN

IsFinite(a) == a[2] # 0

FNeg(a) == <<-a[1], a[2]>>

FAbs(a) == <<Abs(a[1]), a[2]>>

FAdd(a, b) ==
    IF a[2] = 0 /\ b[2] = 0
    THEN (IF a[1] = b[1] THEN a ELSE NaN)
    ELSE Float(a[1] * b[2] + b[1] * a[2], a[2] * b[2])

FSub(a, b) == FAdd(a, FNeg(b))

FMul(a, b) == Float(a[1] * b[1], a[2] * b[2])

FDiv(a, b) == Float(a[1] * b[2] * (IF b[1] < 0 THEN -1 ELSE 1), a[2] * Abs(b[1]))

FLt(a, b) ==
    /\ ~IsNaN(a)
    /\ ~IsNaN(b)
    /\ IF a[2] = 0 /\ b[2] = 0 THEN a[1] < b[1] ELSE a[1] * b[2] < b[1] * a[2]

FLe(a, b) ==
    /\ ~IsNaN(a)
    /\ ~IsNaN(b)
    /\ IF a[2] = 0 /\ b[2] = 0 THEN a[1] <= b[1] ELSE a[1] * b[2] <= b[1] * a[2]

FGt(a, b) == FLt(b, a)

FGe(a, b) == FLe(b, a)

FNe(a, b) == IsNaN(a) \/ IsNaN(b) \/ a # b

\* max(values) and min(values) as the builtins compute them: keep the first
\* item, replace it when a later one compares greater (smaller).
RECURSIVE PyMaxFrom(_, _, _)
PyMaxFrom(values, k, best) ==
    IF k > Len(values) THEN best
    ELSE PyMaxFrom(values, k + 1, IF FGt(values[k], best) THEN values[k] ELSE best)

PyMax(values) == PyMaxFrom(values, 2, values[1])

RECURSIVE PyMinFrom(_, _, _)
PyMinFrom(values, k, best) ==
    IF k > Len(values) THEN best
    ELSE PyMinFrom(values, k + 1, IF FLt(values[k], best) THEN values[k] ELSE best)

PyMin(values) == PyMinFrom(values, 2, values[1])

---------------------------------------------------------------------------
(* Symbols are strings, modelled as sequences of one-character strings so  *)
(* that slicing is computed.                                               *)

EUR == <<"E", "U", "R">>
USD == <<"U", "S", "D">>
GBP == <<"G", "B", "P">>
AUD == <<"A", "U", "D">>
NZD == <<"N", "Z", "D">>
CAD == <<"C", "A", "D">>
CHF == <<"C", "H", "F">>
JPY == <<"J", "P", "Y">>

EURUSDm == EUR \o USD \o <<"m">>
EURGBPm == EUR \o GBP \o <<"m">>
AUDNZDm == AUD \o NZD \o <<"m">>
CADCHFm == CAD \o CHF \o <<"m">>
GBPJPY  == GBP \o JPY
NZDUSDm == NZD \o USD \o <<"m">>

Min2(a, b) == IF a < b THEN a ELSE b

\* symbol[:3]
Base(symbol) == SubSeq(symbol, 1, Min2(3, Len(symbol)))

\* symbol[3:-1] if symbol.endswith('m') else symbol[3:]
Quote(symbol) ==
    IF Len(symbol) > 0 /\ symbol[Len(symbol)] = "m"
    THEN SubSeq(symbol, 4, Len(symbol) - 1)
    ELSE SubSeq(symbol, 4, Len(symbol))

---------------------------------------------------------------------------
(* Bar series.  A series is a sequence of bars, oldest first; a bar is a   *)
(* record of open, high, low, close (in points) and tick_volume.           *)

F(x) == Float(x, 1)

RECURSIVE SumFrom(_, _, _)
SumFrom(values, k, stop) ==
    IF k > stop THEN F(0) ELSE FAdd(values[k], SumFrom(values, k + 1, stop))

\* values.rolling(window).mean().iloc[-1]: NaN unless the series holds a full
\* window, else the mean of its last `window` values.
RollingMeanLast(values, window) ==
    IF Len(values) < window THEN NaN
    ELSE FDiv(SumFrom(values, Len(values) - window + 1, Len(values)), F(window))

---------------------------------------------------------------------------
(* calculate_atr and calculate_price_change                                *)

AtrPeriod == 14

\* Row maximum of two columns, a NaN cell being skipped.
FMax(a, b) ==
    IF IsNaN(a) THEN b
    ELSE IF IsNaN(b) THEN a
    ELSE IF FLt(a, b) THEN b ELSE a

\* df['true_range'] of row i: the first row has no previous close, its two
\* close-based columns are NaN and the maximum is high - low.
TrueRange(series, i) ==
    LET high_low == FSub(F(series[i].high), F(series[i].low))
        high_prev_close ==
            IF i = 1 THEN NaN
            ELSE FAbs(FSub(F(series[i].high), F(series[i - 1].close)))
        low_prev_close ==
            IF i = 1 THEN NaN
            ELSE FAbs(FSub(F(series[i].low), F(series[i - 1].close)))
    IN  FMax(FMax(high_low, high_prev_close), low_prev_close)

calculate_atr(series) ==
    RollingMeanLast([i \in 1..Len(series) |-> TrueRange(series, i)], AtrPeriod)

\* ((current_price - previous_price) / previous_price) * 100 on float64
\* scalars: a zero previous_price gives inf or NaN, not an exception.
calculate_price_change(series) ==
    LET current_price == F(series[Len(series)].close)
        previous_price == F(series[1].close)
    IN  FMul(FDiv(FSub(current_price, previous_price), previous_price), F(100))

---------------------------------------------------------------------------
(* detect_smart_money                                                      *)

VolumeWindow == 14

ReversalThreshold == 3

VolumeThreshold == Float(3, 2)

TickVolumes(series) == [i \in 1..Len(series) |-> F(series[i].tick_volume)]

VolumeSpike(series) ==
    LET avg_volume == RollingMeanLast(TickVolumes(series), VolumeWindow)
        current_volume == F(series[Len(series)].tick_volume)
    IN  FGt(current_volume, FMul(avg_volume, VolumeThreshold))

\* The bullish test without the condition on the bar's direction.
BullishReversalAnyDirection(series) ==
    LET n == Len(series)
    IN  /\ FLe(F(series[n].low), F(series[n - 1].low))
        /\ FGe(F(series[n].close),
               FSub(F(series[n - 1].high), F(ReversalThreshold)))

BullishReversal(series) ==
    LET n == Len(series)
        prev_high == F(series[n - 1].high)
        prev_low == F(series[n - 1].low)
        current_close == F(series[n].close)
    IN  /\ FLe(F(series[n].low), prev_low)
        /\ FGe(current_close, FSub(prev_high, F(ReversalThreshold)))
        /\ FGt(current_close, F(series[n].open))

\* The bearish test without the tolerance on the previous low.
BearishReversalNoTolerance(series) ==
    LET n == Len(series)
    IN  /\ FGe(F(series[n].high), F(series[n - 1].high))
        /\ FLe(F(series[n].close), F(series[n - 1].low))
        /\ FLt(F(series[n].close), F(series[n].open))

BearishReversal(series) ==
    LET n == Len(series)
        prev_high == F(series[n - 1].high)
        prev_low == F(series[n - 1].low)
        current_close == F(series[n].close)
    IN  /\ FGe(F(series[n].high), prev_high)
        /\ FLe(current_close, FAdd(prev_low, F(ReversalThreshold)))
        /\ FLt(current_close, F(series[n].open))

detect_smart_money(series) ==
    LET volume_spike == VolumeSpike(series)
        bullish_reversal == BullishReversal(series)
        bearish_reversal == BearishReversal(series)
    IN  [smart_money      |-> volume_spike /\ (bullish_reversal \/ bearish_reversal),
         volume_spike     |-> volume_spike,
         bullish_reversal |-> bullish_reversal,
         bearish_reversal |-> bearish_reversal]

---------------------------------------------------------------------------
(* select_top_three_pairs                                                  *)

MaxPicks == 3

Half == Float(1, 2)

ThreeTenths == Float(3, 10)

TwoTenths == Float(2, 10)

One == Float(1, 1)

AtrValues(pv) == [i \in 1..Len(pv) |-> pv[i].atr]

PriceChangeValues(pv) == [i \in 1..Len(pv) |-> FAbs(pv[i].price_change)]

\* max - min if max != min else 1
RangeOf(values) ==
    IF FNe(PyMax(values), PyMin(values))
    THEN FSub(PyMax(values), PyMin(values))
    ELSE One

\* The variant that reads the two thresholds the wrong way round.
FilteredOutSwapped(metrics, th) ==
    /\ FLt(metrics.atr, th.price_change)
    /\ FLt(FAbs(metrics.price_change), th.atr)

\* The variant that drops an instrument when it is below either threshold.
FilteredOutEither(metrics, th) ==
    \/ FLt(metrics.atr, th.atr)
    \/ FLt(FAbs(metrics.price_change), th.price_change)

\* The filter's "continue": below the ATR threshold and below the
\* price-change threshold.
FilteredOut(metrics, th) ==
    /\ FLt(metrics.atr, th.atr)
    /\ FLt(FAbs(metrics.price_change), th.price_change)

Score(metrics, atr_values, price_change_values) ==
    LET normalized_atr ==
            FDiv(FSub(metrics.atr, PyMin(atr_values)), RangeOf(atr_values))
        normalized_price_change ==
            FDiv(FSub(FAbs(metrics.price_change), PyMin(price_change_values)),
                 RangeOf(price_change_values))
        score ==
            FAdd(FMul(Half, normalized_atr),
                 FMul(ThreeTenths, normalized_price_change))
    IN  IF metrics.smart_money THEN FAdd(score, TwoTenths) ELSE score

RECURSIVE PairScoresFrom(_, _, _, _, _)
PairScoresFrom(pv, th, k, atr_values, price_change_values) ==
    IF k > Len(pv) THEN <<>>
    ELSE LET metrics == pv[k]
             rest == PairScoresFrom(pv, th, k + 1, atr_values, price_change_values)
         IN  IF FilteredOut(metrics, th) THEN rest
             ELSE <<[symbol       |-> metrics.symbol,
                     score        |-> Score(metrics, atr_values, price_change_values),
                     atr          |-> metrics.atr,
                     price_change |-> metrics.price_change,
                     smart_money  |-> metrics.smart_money]>> \o rest

PairScores(pv, th) ==
    PairScoresFrom(pv, th, 1, AtrValues(pv), PriceChangeValues(pv))

\* (x['score'], x['atr']) < (y['score'], y['atr']), compared as tuples
ScoreKeyLess(x, y) ==
    IF FNe(x.score, y.score) THEN FLt(x.score, y.score) ELSE FLt(x.atr, y.atr)

\* list.sort(key=..., reverse=True) is stable: an item is placed after every
\* earlier item whose key is not smaller than its own.
RECURSIVE InsertByScore(_, _)
InsertByScore(sorted, x) ==
    IF sorted = <<>> THEN <<x>>
    ELSE IF ScoreKeyLess(sorted[Len(sorted)], x)
         THEN Append(InsertByScore(SubSeq(sorted, 1, Len(sorted) - 1), x),
                     sorted[Len(sorted)])
         ELSE Append(sorted, x)

RECURSIVE SortByScoreFrom(_, _, _)
SortByScoreFrom(items, k, sorted) ==
    IF k > Len(items) THEN sorted
    ELSE SortByScoreFrom(items, k + 1, InsertByScore(sorted, items[k]))

SortByScore(items) == SortByScoreFrom(items, 1, <<>>)

\* The clustering test that only looks at the base currency.
NotClusteredBaseOnly(symbol, used_currencies) ==
    Base(symbol) \notin used_currencies

\* base not in used_currencies and quote not in used_currencies
NotClustered(symbol, used_currencies) ==
    /\ Base(symbol) \notin used_currencies
    /\ Quote(symbol) \notin used_currencies

RECURSIVE SelectLoop(_, _, _, _)
SelectLoop(pair_scores, k, selected_pairs, used_currencies) ==
    IF k > Len(pair_scores) \/ Len(selected_pairs) >= MaxPicks
    THEN selected_pairs
    ELSE LET pair == pair_scores[k]
         IN  IF NotClustered(pair.symbol, used_currencies)
             THEN SelectLoop(pair_scores, k + 1, Append(selected_pairs, pair),
                             used_currencies
                                 \cup {Base(pair.symbol), Quote(pair.symbol)})
             ELSE SelectLoop(pair_scores, k + 1, selected_pairs, used_currencies)

select_top_three_pairs(pv, th) ==
    IF pv = <<>> THEN <<>>
    ELSE LET pair_scores == PairScores(pv, th)
         IN  IF pair_scores = <<>> THEN <<>>
             ELSE SelectLoop(SortByScore(pair_scores), 1, <<>>, {})

---------------------------------------------------------------------------
(* check_notifications                                                     *)

\* floor(a) for a finite fraction
Floor(a) == a[1] \div a[2]

\* Round to the nearest integer, ties to even, as the format specs do.
RoundHalfEven(a) ==
    LET lo == Floor(a)
        twice == FSub(FMul(Float(2, 1), a), Float(2 * lo, 1))
    IN  IF FLt(twice, One) THEN lo
        ELSE IF FGt(twice, One) THEN lo + 1
        ELSE IF lo % 2 = 0 THEN lo ELSE lo + 1

\* f"{x:.5f}" of an ATR counted in points of 0.0001: the number of 0.00001
\* steps printed; "nan" and "inf" print as such.
FormatAtr(x) ==
    IF IsFinite(x) THEN <<"f5", RoundHalfEven(FMul(x, Float(10, 1)))>>
    ELSE <<"f5", x>>

\* f"{x:.2f}" of a price change in percent: the number of 0.01 steps printed.
FormatPriceChange(x) ==
    IF IsFinite(x) THEN <<"f2", RoundHalfEven(FMul(x, Float(100, 1)))>>
    ELSE <<"f2", x>>

\* metrics['atr'] > thresholds['atr'] or abs(metrics['price_change']) > ...
IsHighActivity(metrics, th) ==
    \/ FGt(metrics.atr, th.atr)
    \/ FGt(FAbs(metrics.price_change), th.price_change)

RECURSIVE HighActivityFrom(_, _, _)
HighActivityFrom(pv, th, k) ==
    IF k > Len(pv) THEN <<>>
    ELSE LET rest == HighActivityFrom(pv, th, k + 1)
         IN  IF IsHighActivity(pv[k], th)
             THEN <<[symbol       |-> pv[k].symbol,
                     atr          |-> pv[k].atr,
                     price_change |-> pv[k].price_change]>> \o rest
             ELSE rest

\* high_activity_pairs.sort(key=lambda x: x['atr'], reverse=True), stable
RECURSIVE InsertByAtr(_, _)
InsertByAtr(sorted, x) ==
    IF sorted = <<>> THEN <<x>>
    ELSE IF FLt(sorted[Len(sorted)].atr, x.atr)
         THEN Append(InsertByAtr(SubSeq(sorted, 1, Len(sorted) - 1), x),
                     sorted[Len(sorted)])
         ELSE Append(sorted, x)

RECURSIVE SortByAtrFrom(_, _, _)
SortByAtrFrom(items, k, sorted) ==
    IF k > Len(items) THEN sorted
    ELSE SortByAtrFrom(items, k + 1, InsertByAtr(sorted, items[k]))

SortByAtr(items) == SortByAtrFrom(items, 1, <<>>)

\* The cutoff that stops at the first three.
KeepsPairFirstThree(selected_high_activity, pair, third_atr) ==
    Len(selected_high_activity) < 3

\* len(selected_high_activity) < 3 or pair['atr'] >= third_atr
KeepsPair(selected_high_activity, pair, third_atr) ==
    \/ Len(selected_high_activity) < 3
    \/ FGe(pair.atr, third_atr)

RECURSIVE HighActivityLoop(_, _, _, _)
HighActivityLoop(high_activity_pairs, k, third_atr, selected_high_activity) ==
    IF k > Len(high_activity_pairs) THEN selected_high_activity
    ELSE IF KeepsPair(selected_high_activity, high_activity_pairs[k], third_atr)
         THEN HighActivityLoop(high_activity_pairs, k + 1, third_atr,
                               Append(selected_high_activity, high_activity_pairs[k]))
         ELSE selected_high_activity

SelectedHighActivity(pv, th) ==
    LET high_activity_pairs == SortByAtr(HighActivityFrom(pv, th, 1))
        n == Len(high_activity_pairs)
    IN  IF n = 0 THEN <<>>
        ELSE LET third_atr ==
                     IF n >= 3 THEN high_activity_pairs[Min2(2, n - 1) + 1].atr
                     ELSE high_activity_pairs[n].atr
             IN  HighActivityLoop(high_activity_pairs, 1, third_atr, <<>>)

HighActivityMessages(selected_high_activity) ==
    [i \in 1..Len(selected_high_activity) |->
        [kind   |-> "High activity detected in",
         symbol |-> selected_high_activity[i].symbol,
         detail |-> <<FormatAtr(selected_high_activity[i].atr),
                      FormatPriceChange(selected_high_activity[i].price_change)>>]]

RECURSIVE SmartMoneyMessagesFrom(_, _)
SmartMoneyMessagesFrom(pv, k) ==
    IF k > Len(pv) THEN <<>>
    ELSE LET rest == SmartMoneyMessagesFrom(pv, k + 1)
         IN  IF pv[k].smart_money
             THEN <<[kind   |-> "Smart money activity detected in",
                     symbol |-> pv[k].symbol,
                     detail |-> <<IF pv[k].bullish_reversal
                                  THEN "Bullish" ELSE "Bearish">>]>> \o rest
             ELSE rest

\* The note that is appended whatever the count.
ShortfallNoteAlways(selected_high_activity) ==
    <<[kind   |-> "Note: Only",
       symbol |-> <<>>,
       detail |-> <<Len(selected_high_activity)>>]>>

\* if len(selected_high_activity) < 3: the note stating the count
ShortfallNote(selected_high_activity) ==
    IF Len(selected_high_activity) < 3
    THEN <<[kind   |-> "Note: Only",
            symbol |-> <<>>,
            detail |-> <<Len(selected_high_activity)>>]>>
    ELSE <<>>

check_notifications(pv, th) ==
    LET selected_high_activity == SelectedHighActivity(pv, th)
    IN  HighActivityMessages(selected_high_activity)
            \o SmartMoneyMessagesFrom(pv, 1)
            \o ShortfallNote(selected_high_activity)

---------------------------------------------------------------------------
(* The evaluation cycle of monitor_forex on one metrics map: the shortlist *)
(* is selected, then the notifications are derived from the same map.      *)

\* Number of listed instruments a metrics map is drawn over.
NumPairs == 5

AllPairs == <<EURUSDm, AUDNZDm, EURGBPm, CADCHFm, GBPJPY, NZDUSDm>>

CurrencyPairs == SubSeq(AllPairs, 1, Min2(NumPairs, Len(AllPairs)))

\* One entry of the metrics map.  kind is the outcome of detect_smart_money:
\* no volume spike, or a spike with a bullish or a bearish reversal.
Entry(symbol, atr, price_change, kind) ==
    [symbol           |-> symbol,
     atr              |-> Float(atr, 1),
     price_change     |-> Float(price_change, 10),
     smart_money      |-> kind # "none",
     volume_spike     |-> kind # "none",
     bullish_reversal |-> kind = "bull",
     bearish_reversal |-> kind = "bear"]

\* The metrics an instrument can show: <<ATR in points, price change in
\* tenths of a percent, kind>>.
MetricChoices ==
    { <<10, 8, "none">>,    \* above both thresholds of the program
      <<9, 2, "bull">>,     \* above the ATR threshold only, smart money
      <<12, 1, "none">>,    \* above the ATR threshold only
      <<5, 1, "none">>,     \* below both thresholds
      <<5, -8, "bear">> }   \* above the price-change threshold only, falling

ThresholdChoices ==
    { [atr |-> Float(6, 1), price_change |-> Float(5, 10)],
      [atr |-> Float(9, 1), price_change |-> Float(2, 10)] }

\* Every metrics map over the listed instruments: each instrument is absent
\* (its data was unavailable) or present with one of the metric choices; the
\* keys keep the order of the list.
RECURSIVE MetricsMapsFrom(_)
MetricsMapsFrom(k) ==
    IF k > Len(CurrencyPairs) THEN { <<>> }
    ELSE LET rest == MetricsMapsFrom(k + 1)
         IN  rest \cup
             { <<Entry(CurrencyPairs[k], m[1], m[2], m[3])>> \o r :
                   m \in MetricChoices, r \in rest }

MetricsMaps == MetricsMapsFrom(1)

NoFeed == <<>>
NoSeries == <<>>
NoResult == [smart_money |-> FALSE, volume_spike |-> FALSE,
             bullish_reversal |-> FALSE, bearish_reversal |-> FALSE]

Init ==
    /\ phase = "ranked"
    /\ pair_volatility \in MetricsMaps
    /\ thresholds \in ThresholdChoices
    /\ top_three_pairs = <<>>
    /\ notifications = <<>>
    /\ cursor = 0
    /\ feed = NoFeed
    /\ currency_volatility = <<>>
    /\ ranked_currencies = <<>>
    /\ df = NoSeries
    /\ result = NoResult
    /\ mirror_result = NoResult

\* top_three_pairs = select_top_three_pairs(pair_volatility, thresholds)
Select ==
    /\ phase = "ranked"
    /\ top_three_pairs' = select_top_three_pairs(pair_volatility, thresholds)
    /\ phase' = "selected"
    /\ UNCHANGED <<cursor, feed, pair_volatility, currency_volatility,
                   ranked_currencies, thresholds, notifications, df, result,
                   mirror_result>>

\* notifications = check_notifications(pair_volatility, thresholds)
Notify ==
    /\ phase = "selected"
    /\ notifications' = check_notifications(pair_volatility, thresholds)
    /\ phase' = "notified"
    /\ UNCHANGED <<cursor, feed, pair_volatility, currency_volatility,
                   ranked_currencies, thresholds, top_three_pairs, df, result,
                   mirror_result>>

Next == Select \/ Notify

Spec == Init /\ [][Next]_vars

---------------------------------------------------------------------------
(* Properties of select_top_three_pairs                                    *)

Selected == phase \in {"selected", "notified"}

ProgramThresholds == [atr |-> Float(6, 1), price_change |-> Float(5, 10)]

\* The currencies of a symbol as the decomposition rule states them: the
\* first three characters, and the rest without a trailing "m".
CurrenciesOf(symbol) ==
    LET n == Len(symbol)
        stop == IF n > 0 /\ symbol[n] = "m" THEN n - 1 ELSE n
    IN  { [i \in 1..(IF n < 3 THEN n ELSE 3) |-> symbol[i]],
          [i \in 1..(IF stop > 3 THEN stop - 3 ELSE 0) |-> symbol[i + 3]] }

SymbolsOf(pairs) == [i \in 1..Len(pairs) |-> pairs[i].symbol]

ClearsAThreshold(m, th) ==
    \/ FGe(m.atr, th.atr)
    \/ FGe(FAbs(m.price_change), th.price_change)

\* C1: no two distinct candidates of the returned shortlist share a currency
\* (base with base, quote with quote, or one's base with the other's quote).
C1_NoSharedCurrency ==
    Selected =>
        \A i, j \in 1..Len(top_three_pairs) :
            i # j =>
                CurrenciesOf(top_three_pairs[i].symbol)
                    \cap CurrenciesOf(top_three_pairs[j].symbol) = {}

\* A shortlist of two or more was returned while a candidate that cleared the
\* filter was left out because it shares a currency with a pick.
C1_Witness ==
    /\ phase = "selected"
    /\ Len(top_three_pairs) = 2
    /\ \E k \in 1..Len(pair_volatility) :
           /\ ClearsAThreshold(pair_volatility[k], thresholds)
           /\ \A i \in 1..Len(top_three_pairs) :
                  top_three_pairs[i].symbol # pair_volatility[k].symbol
           /\ \E i \in 1..Len(top_three_pairs) :
                  CurrenciesOf(top_three_pairs[i].symbol)
                      \cap CurrenciesOf(pair_volatility[k].symbol) # {}

\* C2: the shortlist holds at most three candidates, each one an instrument of
\* the map whose volatility or absolute price change reaches its threshold.
C2_AtMostThreeAllPassFilter ==
    Selected =>
        /\ Len(top_three_pairs) <= 3
        /\ \A i \in 1..Len(top_three_pairs) :
               /\ \E k \in 1..Len(pair_volatility) :
                      /\ pair_volatility[k].symbol = top_three_pairs[i].symbol
                      /\ pair_volatility[k].atr = top_three_pairs[i].atr
                      /\ pair_volatility[k].price_change
                             = top_three_pairs[i].price_change
               /\ ClearsAThreshold(top_three_pairs[i], thresholds)

\* Three were picked although a fourth candidate cleared the filter and shares
\* no currency with them, and the map also held an instrument below both
\* thresholds.
C2_Witness ==
    /\ phase = "selected"
    /\ Len(top_three_pairs) = 3
    /\ \E k \in 1..Len(pair_volatility) :
           ~ClearsAThreshold(pair_volatility[k], thresholds)
    /\ \E k \in 1..Len(pair_volatility) :
           /\ ClearsAThreshold(pair_volatility[k], thresholds)
           /\ \A i \in 1..3 :
                  CurrenciesOf(top_three_pairs[i].symbol)
                      \cap CurrenciesOf(pair_volatility[k].symbol) = {}

\* The scenario: A = EURUSDm, B = AUDNZDm, C = EURGBPm (A's base currency).
ScenarioMap ==
    <<Entry(EURUSDm, 10, 8, "none"),
      Entry(AUDNZDm, 9, 2, "bull"),
      Entry(EURGBPm, 12, 1, "none")>>

InScenario ==
    /\ Selected
    /\ pair_volatility = ScenarioMap
    /\ thresholds = ProgramThresholds

\* C3 as stated: in the scenario B is excluded by the filter and the shortlist
\* is [C] only.
C3_ScenarioShortlistIsC ==
    InScenario => SymbolsOf(top_three_pairs) = <<EURGBPm>>

\* C3 amended: in the scenario B clears the filter by its volatility, A is
\* skipped for sharing C's base currency, and the shortlist is [C, B].
C3_ScenarioShortlistIsCB ==
    InScenario =>
        /\ ClearsAThreshold(ScenarioMap[2], thresholds)
        /\ SymbolsOf(top_three_pairs) = <<EURGBPm, AUDNZDm>>

C3_Witness == InScenario /\ phase = "selected"

RemoveAt(seq, k) == SubSeq(seq, 1, k - 1) \o SubSeq(seq, k + 1, Len(seq))

BelowBoth(m, th) ==
    /\ FLt(m.atr, th.atr)
    /\ FLt(FAbs(m.price_change), th.price_change)

\* C9: an instrument that fails the filter has no effect on the result: the
\* shortlist (symbols, scores, order) is the one obtained from the map
\* without that instrument.
C9_FilteredInstrumentHasNoEffect ==
    phase = "selected" =>
        \A k \in 1..Len(pair_volatility) :
            BelowBoth(pair_volatility[k], thresholds) =>
                top_three_pairs
                    = select_top_three_pairs(RemoveAt(pair_volatility, k),
                                             thresholds)

---------------------------------------------------------------------------
(* Properties of check_notifications                                       *)

ActivityKind == "High activity detected in"
SmartMoneyKind == "Smart money activity detected in"
NoteKind == "Note: Only"

\* Positions of the notifications of one kind.
PositionsOf(kind) ==
    { i \in 1..Len(notifications) : notifications[i].kind = kind }

\* Positions in the map of the instruments exceeding either threshold.
Exceeding ==
    { k \in 1..Len(pair_volatility) :
          \/ FGt(pair_volatility[k].atr, thresholds.atr)
          \/ FGt(FAbs(pair_volatility[k].price_change), thresholds.price_change) }

\* k is among the three most volatile of the exceeding instruments, or tied
\* with the third: fewer than three of them are strictly more volatile.
AtOrAboveThird(k) ==
    Cardinality({ h \in Exceeding :
                      FGt(pair_volatility[h].atr, pair_volatility[k].atr) }) < 3

ExpectedAlerted == { k \in Exceeding : AtOrAboveThird(k) }

MapPosition(symbol) ==
    CHOOSE k \in 1..Len(pair_volatility) : pair_volatility[k].symbol = symbol

\* C4: the activity alerts are, one each and in descending volatility order,
\* for the instruments exceeding either threshold that rank third or better by
\* volatility, ties with the third included (all of them when fewer than 3).
C4_ActivityAlerts ==
    phase = "notified" =>
        LET alerts == PositionsOf(ActivityKind)
        IN  /\ \A i \in alerts :
                   \E k \in ExpectedAlerted :
                       /\ pair_volatility[k].symbol = notifications[i].symbol
                       /\ notifications[i].detail
                              = <<FormatAtr(pair_volatility[k].atr),
                                  FormatPriceChange(pair_volatility[k].price_change)>>
            /\ \A k \in ExpectedAlerted :
                   Cardinality({ i \in alerts :
                       notifications[i].symbol = pair_volatility[k].symbol }) = 1
            /\ Cardinality(Exceeding) < 3 =>
                   Cardinality(alerts) = Cardinality(Exceeding)
            /\ \A i, j \in alerts :
                   i < j =>
                       FGe(pair_volatility[MapPosition(notifications[i].symbol)].atr,
                           pair_volatility[MapPosition(notifications[j].symbol)].atr)

\* More than three activity alerts were emitted because of a tie at the
\* cutoff, and an exceeding instrument below the cutoff got none.
C4_Witness ==
    /\ phase = "notified"
    /\ Cardinality(PositionsOf(ActivityKind)) > 3
    /\ Cardinality(Exceeding) > Cardinality(PositionsOf(ActivityKind))

\* C5: activity alerts come first, smart-money alerts after them, and the
\* shortfall note is there exactly when fewer than 3 activity alerts are,
\* once, last, and states their number; an empty map gives the note alone.
C5_OrderAndShortfallNote ==
    phase = "notified" =>
        LET n == Cardinality(PositionsOf(ActivityKind))
            notes == PositionsOf(NoteKind)
        IN  /\ \A i \in PositionsOf(ActivityKind), j \in PositionsOf(SmartMoneyKind) :
                   i < j
            /\ (n < 3) <=> (notes # {})
            /\ Cardinality(notes) <= 1
            /\ \A i \in notes :
                   /\ i = Len(notifications)
                   /\ notifications[i].detail = <<n>>
            /\ pair_volatility = <<>> =>
                   /\ Len(notifications) = 1
                   /\ notifications[1].kind = NoteKind
                   /\ notifications[1].detail = <<0>>

\* One or two activity alerts, then smart-money alerts, then the note.
C5_Witness ==
    /\ phase = "notified"
    /\ Cardinality(PositionsOf(ActivityKind)) \in {1, 2}
    /\ PositionsOf(SmartMoneyKind) # {}
    /\ notifications[Len(notifications)].kind = NoteKind

---------------------------------------------------------------------------
(* detect_smart_money on a bar series and on its mirror image              *)

\* Largest price (in points) of the two latest bars of a drawn series.
MaxPrice == 4

NumBars == 14

Prices == 0..MaxPrice

\* The earlier bars, and the latest bar's volume choices: with thirteen bars
\* of volume 100 the spike test 14 v > 1.5 (1300 + v) turns at v = 156.
QuietBar == [open |-> 2, high |-> 2, low |-> 2, close |-> 2,
             tick_volume |-> 100]

LatestVolumes == {156, 157}

\* NumBars bars: quiet ones, then the previous bar and the latest bar.  Any
\* four prices are allowed in the latest bar, also ones no market produces
\* (a low above the high).
DetectSeries ==
    { [i \in 1..NumBars |->
          IF i < NumBars - 1 THEN QuietBar
          ELSE IF i = NumBars - 1
               THEN [open |-> pl, high |-> ph, low |-> pl, close |-> ph,
                     tick_volume |-> QuietBar.tick_volume]
               ELSE [open |-> o, high |-> h, low |-> l, close |-> c,
                     tick_volume |-> v]] :
      ph \in Prices, pl \in Prices, o \in Prices, h \in Prices, l \in Prices,
      c \in Prices, v \in LatestVolumes }

\* The mirror image of a series: every price negated, so that each bar's high
\* and low swap roles; tick volumes unchanged.
Mirror(series) ==
    [i \in 1..Len(series) |->
        [open        |-> -series[i].open,
         high        |-> -series[i].low,
         low         |-> -series[i].high,
         close       |-> -series[i].close,
         tick_volume |-> series[i].tick_volume]]

InitDetect ==
    /\ phase = "fetched"
    /\ df \in DetectSeries
    /\ result = NoResult
    /\ mirror_result = NoResult
    /\ pair_volatility = <<>>
    /\ thresholds = ProgramThresholds
    /\ top_three_pairs = <<>>
    /\ notifications = <<>>
    /\ cursor = 0
    /\ feed = NoFeed
    /\ currency_volatility = <<>>
    /\ ranked_currencies = <<>>

\* smart_money_metrics = detect_smart_money(df)
Detect ==
    /\ phase = "fetched"
    /\ result' = detect_smart_money(df)
    /\ phase' = "detected"
    /\ UNCHANGED <<cursor, feed, pair_volatility, currency_volatility,
                   ranked_currencies, thresholds, top_three_pairs,
                   notifications, df, mirror_result>>

\* detect_smart_money applied to the mirror image of the same series
DetectMirrored ==
    /\ phase = "detected"
    /\ mirror_result' = detect_smart_money(Mirror(df))
    /\ phase' = "mirrored"
    /\ UNCHANGED <<cursor, feed, pair_volatility, currency_volatility,
                   ranked_currencies, thresholds, top_three_pairs,
                   notifications, df, result>>

NextDetect == Detect \/ DetectMirrored

SpecDetect == InitDetect /\ [][NextDetect]_vars

\* C8: mirroring the prices swaps bullish_reversal and bearish_reversal and
\* leaves volume_spike, hence smart_money, unchanged.
C8_MirrorSwapsReversals ==
    phase = "mirrored" =>
        /\ mirror_result.bullish_reversal = result.bearish_reversal
        /\ mirror_result.bearish_reversal = result.bullish_reversal
        /\ mirror_result.volume_spike = result.volume_spike
        /\ mirror_result.smart_money = result.smart_money

\* A bearish reversal with a volume spike whose close lies strictly above the
\* previous low (inside the tolerance), detected and then mirrored.
C8_Witness ==
    /\ phase = "mirrored"
    /\ result.smart_money
    /\ result.bearish_reversal
    /\ df[Len(df)].close > df[Len(df) - 1].low
    /\ mirror_result.bullish_reversal

BothReversals(r) == r.bullish_reversal /\ r.bearish_reversal

\* C10 as stated: some bar series (the one at hand, or any other series of
\* the domain or its mirror image) makes detect_smart_money report both
\* reversal directions at once.
C10_BothReversalsPossible ==
    \E series \in {df} \cup DetectSeries \cup { Mirror(x) : x \in DetectSeries } :
        BothReversals(detect_smart_money(series))

\* C10 amended: detect_smart_money never reports both reversal directions at
\* once, whatever the bars (bullish needs close > open, bearish close < open).
C10_NeverBothReversals ==
    /\ phase \in {"detected", "mirrored"} => ~BothReversals(result)
    /\ phase = "mirrored" => ~BothReversals(mirror_result)

\* A latest bar that reaches below the previous low and above the previous
\* high and closes within the tolerance of both, yet reports one direction.
C10_Witness ==
    /\ phase = "detected"
    /\ LET n == Len(df)
       IN  /\ df[n].low <= df[n - 1].low
           /\ df[n].high >= df[n - 1].high
           /\ df[n].close >= df[n - 1].high - ReversalThreshold
           /\ df[n].close <= df[n - 1].low + ReversalThreshold
    /\ result.bullish_reversal
    /\ ~result.bearish_reversal

---------------------------------------------------------------------------
(* fetch_data and rank_currencies, one loop iteration per step             *)

\* Number of instruments of the list handed to rank_currencies.
RankPairs == 3

RankList == SubSeq(AllPairs, 1, Min2(RankPairs, Len(AllPairs)))

\* None, and the empty answer of the terminal.
None == <<>>

\* rates is None or len(rates) == 0 gives None, else the frame of the rates
fetch_data(rates) == IF rates = None \/ Len(rates) = 0 THEN None ELSE rates

\* A series of NumBars bars that opens at first_close, stays there and closes
\* its latest bar at last_close; every bar spans `spread` points.  The latest
\* bar carries a volume spike.
RankSeriesOf(first_close, last_close, spread) ==
    [i \in 1..NumBars |->
        LET c == IF i < NumBars THEN first_close ELSE last_close
        IN  [open |-> first_close, high |-> c + spread, low |-> c, close |-> c,
             tick_volume |-> IF i < NumBars THEN QuietBar.tick_volume
                             ELSE 2 * QuietBar.tick_volume]]

\* What the terminal can answer for one instrument: nothing, or a series of
\* NumBars bars.  A first close of 0 is degenerate instrument data.
RatesChoices ==
    { None } \cup
    { RankSeriesOf(f, l, sp) : f \in {0, 100}, l \in {0, 102}, sp \in {1, 2} }

InitRank ==
    /\ phase = "ranking"
    /\ feed \in [1..Len(RankList) -> RatesChoices]
    /\ cursor = 1
    /\ pair_volatility = <<>>
    /\ currency_volatility = <<>>
    /\ ranked_currencies = <<>>
    /\ thresholds = ProgramThresholds
    /\ top_three_pairs = <<>>
    /\ notifications = <<>>
    /\ df = NoSeries
    /\ result = NoResult
    /\ mirror_result = NoResult

\* dict[key] = value on an insertion-ordered dict keyed by .symbol
DictSet(dict, entry) ==
    IF \E k \in 1..Len(dict) : dict[k].symbol = entry.symbol
    THEN [k \in 1..Len(dict) |->
             IF dict[k].symbol = entry.symbol THEN entry ELSE dict[k]]
    ELSE Append(dict, entry)

\* One pass of "for currency in [base, quote]" for one currency.
AddCurrency(cv, currency, atr) ==
    LET known == \E k \in 1..Len(cv) : cv[k].currency = currency
        started == IF known THEN cv
                   ELSE Append(cv, [currency |-> currency,
                                    total_atr |-> F(0), count |-> 0])
    IN  [k \in 1..Len(started) |->
            IF started[k].currency = currency
            THEN [started[k] EXCEPT !.total_atr = FAdd(@, atr), !.count = @ + 1]
            ELSE started[k]]

\* The iteration that gives up the whole loop on unavailable data.
RankSkipBreaks ==
    /\ phase = "ranking"
    /\ cursor <= Len(RankList)
    /\ fetch_data(feed[cursor]) = None
    /\ cursor' = Len(RankList) + 1
    /\ UNCHANGED <<phase, feed, pair_volatility, currency_volatility,
                   ranked_currencies, thresholds, top_three_pairs,
                   notifications, df, result, mirror_result>>

\* df = fetch_data(symbol, ...); if df is None: continue
RankSkip ==
    /\ phase = "ranking"
    /\ cursor <= Len(RankList)
    /\ fetch_data(feed[cursor]) = None
    /\ cursor' = cursor + 1
    /\ UNCHANGED <<phase, feed, pair_volatility, currency_volatility,
                   ranked_currencies, thresholds, top_three_pairs,
                   notifications, df, result, mirror_result>>

\* The rest of the loop body for an instrument whose data was fetched.
RankStore ==
    /\ phase = "ranking"
    /\ cursor <= Len(RankList)
    /\ fetch_data(feed[cursor]) # None
    /\ LET symbol == RankList[cursor]
           series == fetch_data(feed[cursor])
           atr == calculate_atr(series)
           price_change == calculate_price_change(series)
           smart_money_metrics == detect_smart_money(series)
       IN  /\ df' = series
           /\ result' = smart_money_metrics
           /\ pair_volatility' =
                  DictSet(pair_volatility,
                          [symbol           |-> symbol,
                           atr              |-> atr,
                           price_change     |-> price_change,
                           smart_money      |-> smart_money_metrics.smart_money,
                           volume_spike     |-> smart_money_metrics.volume_spike,
                           bullish_reversal |-> smart_money_metrics.bullish_reversal,
                           bearish_reversal |-> smart_money_metrics.bearish_reversal])
           /\ currency_volatility' =
                  AddCurrency(AddCurrency(currency_volatility, Base(symbol), atr),
                              Quote(symbol), atr)
    /\ cursor' = cursor + 1
    /\ UNCHANGED <<phase, feed, ranked_currencies, thresholds, top_three_pairs,
                   notifications, mirror_result>>

\* sorted(..., key=lambda x: x[1]['avg_atr'], reverse=True), stable
RECURSIVE InsertByAvgAtr(_, _)
InsertByAvgAtr(sorted, x) ==
    IF sorted = <<>> THEN <<x>>
    ELSE IF FLt(sorted[Len(sorted)].avg_atr, x.avg_atr)
         THEN Append(InsertByAvgAtr(SubSeq(sorted, 1, Len(sorted) - 1), x),
                     sorted[Len(sorted)])
         ELSE Append(sorted, x)

RECURSIVE SortByAvgAtrFrom(_, _, _)
SortByAvgAtrFrom(items, k, sorted) ==
    IF k > Len(items) THEN sorted
    ELSE SortByAvgAtrFrom(items, k + 1, InsertByAvgAtr(sorted, items[k]))

\* The averaging loop and the ranking, after the last instrument.
RankReturn ==
    /\ phase = "ranking"
    /\ cursor > Len(RankList)
    /\ ranked_currencies' =
           SortByAvgAtrFrom(
               [k \in 1..Len(currency_volatility) |->
                   [currency  |-> currency_volatility[k].currency,
                    total_atr |-> currency_volatility[k].total_atr,
                    count     |-> currency_volatility[k].count,
                    avg_atr   |-> FDiv(currency_volatility[k].total_atr,
                                       F(currency_volatility[k].count))]],
               1, <<>>)
    /\ phase' = "ranked"
    /\ UNCHANGED <<cursor, feed, pair_volatility, currency_volatility,
                   thresholds, top_three_pairs, notifications, df, result,
                   mirror_result>>

NextRank == RankSkip \/ RankStore \/ RankReturn

SpecRank == InitRank /\ [][NextRank]_vars

---------------------------------------------------------------------------
(* Properties of rank_currencies                                           *)

\* Positions of the list whose fetch answered with data.
Available == { k \in 1..Len(RankList) : feed[k] # None /\ Len(feed[k]) > 0 }

\* Positions the loop has been through.
Visited == 1..(cursor - 1)

\* The symbols at the given positions, in list order.
RECURSIVE ListedFrom(_, _)
ListedFrom(k, positions) ==
    IF k > Len(RankList) THEN <<>>
    ELSE (IF k \in positions THEN <<RankList[k]>> ELSE <<>>)
             \o ListedFrom(k + 1, positions)

StoredAtr(symbol) ==
    LET k == CHOOSE i \in 1..Len(pair_volatility) :
                 pair_volatility[i].symbol = symbol
    IN  pair_volatility[k].atr

RECURSIVE SumStoredAtr(_)
SumStoredAtr(positions) ==
    IF positions = {} THEN F(0)
    ELSE LET k == CHOOSE x \in positions : TRUE
         IN  FAdd(StoredAtr(RankList[k]), SumStoredAtr(positions \ {k}))

\* Positions of the fetched, visited instruments that trade a currency.
Trading(currency) ==
    { k \in Available \cap Visited : currency \in CurrenciesOf(RankList[k]) }

\* C6: an unavailable fetch is skipped and the loop goes on: the metrics map
\* has as keys, in list order, exactly the visited instruments whose fetch
\* succeeded, each currency's total and count come from those alone, and the
\* function returns only after the whole list has been visited.
C6_UnavailableIsSkipped ==
    /\ SymbolsOf(pair_volatility) = ListedFrom(1, Available \cap Visited)
    /\ \A e \in 1..Len(currency_volatility) :
           LET currency == currency_volatility[e].currency
           IN  /\ currency_volatility[e].count = Cardinality(Trading(currency))
               /\ currency_volatility[e].count > 0
               /\ currency_volatility[e].total_atr = SumStoredAtr(Trading(currency))
    /\ \A k \in Available \cap Visited :
           \A currency \in CurrenciesOf(RankList[k]) :
               \E e \in 1..Len(currency_volatility) :
                   currency_volatility[e].currency = currency
    /\ phase = "ranking" => cursor \in 1..(Len(RankList) + 1)
    /\ phase = "ranked" =>
           /\ Visited = 1..Len(RankList)
           /\ SymbolsOf(pair_volatility) = ListedFrom(1, Available)

\* The function returned with an unavailable instrument listed before one
\* whose data was fetched, both trading a common currency with others.
C6_Witness ==
    /\ phase = "ranked"
    /\ \E k \in 1..Len(RankList) :
           /\ k \notin Available
           /\ \E later \in Available : later > k
    /\ Len(pair_volatility) >= 2
    /\ \E e \in 1..Len(currency_volatility) : currency_volatility[e].count = 2

\* Degenerate instrument data: a zero first close, or fewer than period + 1
\* bars for the rolling window.
Degenerate(series) ==
    \/ series[1].close = 0
    \/ Len(series) < AtrPeriod + 1

\* C7: an instrument with degenerate data is treated like one with unavailable
\* data: it gets no entry in the metrics map (its failure is not turned into
\* a number) and contributes to no currency total.
C7_DegenerateIsSkipped ==
    \A k \in Available \cap Visited :
        Degenerate(feed[k]) =>
            /\ \A i \in 1..Len(pair_volatility) :
                   pair_volatility[i].symbol # RankList[k]
            /\ \A e \in 1..Len(currency_volatility) :
                   currency_volatility[e].currency \notin CurrenciesOf(RankList[k])

====
